---- MODULE Spec2Model ----
(***************************************************************************)
(* Model of virttest/libvirt_xml/vm_xml.py: the VMXMLBase / VMXML /        *)
(* VMCPUXML classes that edit a libvirt domain document and push it back   *)
(* through virsh (dumpxml / undefine / define).                            *)
(*                                                                         *)
(* Names and uuids are small integers; None (0) stands for Python's None   *)
(* and for "no such element".  Strings that the code inspects character by *)
(* character (the cpu mode) are sequences of one-character strings.        *)
(***************************************************************************)
EXTENDS Integers, Sequences, FiniteSets, TLC

\* ---------------------------------------------------------------- bounds
NumNames == 2
NumUUIDs == 2
MaxSerials == 1
MaxPad == 2
MaxFeatures == 3
NumTypes == 2
MaxVcpu == 2
NumMacs == 3

Names == 1..NumNames
UUIDs == 1..NumUUIDs
None  == 0

VARIABLES
    store,      \* the definitions libvirt holds: a set of domain documents
    vm,         \* the caller's VM object: name, uuid, alive
    last,       \* what the last VMXML operation did and how it ended
    modeIn,     \* check_cpu_mode: the argument, as padding + core + padding
    modeOut,    \* check_cpu_mode: how the last call ended
    features,   \* VMCPUXML: the name attributes of the /cpu/feature nodes
    lastF,      \* VMCPUXML: the last feature operation
    basexml,    \* VMXMLBase: the document behind the accessor properties
    lastB,      \* VMXMLBase: the last property operation
    mac         \* run_mac_change: the test's locals, the guest and where it is

vmVars   == <<store, vm, last>>
modeVars == <<modeIn, modeOut>>
cpuVars  == <<features, lastF>>
baseVars == <<basexml, lastB>>
macVars  == <<mac>>
vars == <<store, vm, last, modeIn, modeOut, features, lastF, basexml, lastB, mac>>

\* ---------------------------------------------------------------- strings
Str_custom == <<"c","u","s","t","o","m">>
Str_host_model == <<"h","o","s","t","-","m","o","d","e","l">>
Str_host_passthrough ==
    <<"h","o","s","t","-","p","a","s","s","t","h","r","o","u","g","h">>

\* the characters str.strip() removes
Whitespace == {" ", "\t", "\n", "\r", "\f"}

RECURSIVE lstrip(_)
lstrip(s) ==
    IF s # <<>> /\ Head(s) \in Whitespace THEN lstrip(Tail(s)) ELSE s

RECURSIVE rstrip(_)
rstrip(s) ==
    IF s # <<>> /\ s[Len(s)] \in Whitespace
    THEN rstrip(SubSeq(s, 1, Len(s) - 1)) ELSE s

\* strip that trims the left end only
strip_leading_only(s) == lstrip(s)

\* mode.strip()
strip(s) == rstrip(lstrip(s))

\* cpu_mode = ["custom", "host-model", "host-passthrough"]
cpu_mode == {Str_custom, Str_host_model, Str_host_passthrough}

\* VMXML.check_cpu_mode(mode): TRUE when it returns, FALSE when it raises
\* LibvirtXMLError
check_cpu_mode(mode) == strip(mode) \in cpu_mode

\* ------------------------------------------------------------- documents
\* A domain document as virsh dumpxml returns it.  uuid = None: no <uuid>
\* element.  serials: the <serial> children of <devices>, in document order.
NoPath == ""

Serial(type, port, source) == [type |-> type, port |-> port, source |-> source]

\* no document: the operation ended before one was made
NoDoc == [name |-> None, uuid |-> None, hasCpu |-> FALSE, cpuMode |-> <<>>,
          hasDevices |-> FALSE, serials |-> <<>>]

Defined(st, n) == \E d \in st : d.name = n

\* virsh.dumpxml(name): the one definition stored under that name
Dumpxml(st, n) == CHOOSE d \in st : d.name = n

\* virsh.remove_domain(name), when it succeeds
Undefine(st, n) == {d \in st : d.name # n}

\* virsh.define(xml), when it succeeds: the definition under the document's
\* name is replaced
Define(st, doc) == {d \in st : d.name # doc.name} \cup {doc}

\* LibvirtXMLBase.copy(): a new instance with its own document
copy(heap, ref) == [heap |-> Append(heap, heap[ref]), ref |-> Len(heap) + 1]

\* vmxml.vm_name = value
set_vm_name(heap, ref, value) == [heap EXCEPT ![ref].name = value]

\* vmxml.uuid = value
set_uuid(heap, ref, value) == [heap EXCEPT ![ref].uuid = value]

\* del vmxml.uuid
del_uuid(heap, ref) == [heap EXCEPT ![ref].uuid = None]

\* ------------------------------------------------------------ vm_rename
\* The exception (or normal return) that reaches the caller: its class and the
\* failed steps its message reports.
Outcome(result, reports) == [result |-> result, reports |-> reports]

Returned == Outcome("ok", {})

\* if vm.is_alive(): vm.destroy(gracefully=True)
rename_quiesce(v, trace) ==
    IF v.alive
    THEN [vm |-> [v EXCEPT !.alive = FALSE], trace |-> Append(trace, "destroy")]
    ELSE [vm |-> v, trace |-> trace]

\* rename_alter with the uuid element left alone when no uuid is supplied
rename_alter_keeps_uuid(s, new_name, uuid) ==
    LET h1 == set_vm_name(s.heap, 1, new_name)
    IN  IF uuid = None
        THEN [vm |-> [s.vm EXCEPT !.uuid = None], heap |-> h1]
        ELSE [vm |-> [s.vm EXCEPT !.uuid = uuid], heap |-> set_uuid(h1, 1, uuid)]

\* Alter the XML: the name, then the uuid of the working copy and of vm.
\* s = [vm, heap], heap[1] is vmxml.
rename_alter(s, new_name, uuid) ==
    LET h1 == set_vm_name(s.heap, 1, new_name)
    IN  IF uuid = None
        THEN [vm |-> [s.vm EXCEPT !.uuid = None], heap |-> del_uuid(h1, 1)]
        ELSE [vm |-> [s.vm EXCEPT !.uuid = uuid], heap |-> set_uuid(h1, 1, uuid)]

\* rename_undefine_failed with the handler falling through to the alteration
\* and the define instead of raising at once
rename_undefine_failed_goes_on(s) ==
    [vm |-> [s.vm EXCEPT !.uuid = None], store |-> Define(s.store, s.heap[1]),
     heap |-> [s.heap EXCEPT ![1].uuid = None],
     trace |-> s.trace \o <<"alter", "define">>,
     out |-> Outcome("LibvirtXMLError", {"undefine"})]

\* except error.CmdError around vmxml.undefine(): raise, nothing else
rename_undefine_failed(s) ==
    [vm |-> s.vm, store |-> s.store, heap |-> s.heap, trace |-> s.trace,
     out |-> Outcome("LibvirtXMLError", {"undefine"})]

\* rename_define_failed with the restoration's CmdError caught and folded
\* into the LibvirtXMLError
rename_define_failed_catches(s, backup, restoreOk) ==
    IF restoreOk
    THEN [vm |-> s.vm, store |-> Define(s.store, s.heap[backup]), heap |-> s.heap,
          trace |-> s.trace \o <<"define", "define backup">>,
          out |-> Outcome("LibvirtXMLError", {"define"})]
    ELSE [vm |-> s.vm, store |-> s.store, heap |-> s.heap,
          trace |-> s.trace \o <<"define", "define backup">>,
          out |-> Outcome("LibvirtXMLError", {"define", "restore"})]

\* rename_define_failed with the working copy defined again in place of the
\* backup
rename_define_failed_redefines_vmxml(s, backup, restoreOk) ==
    IF restoreOk
    THEN [vm |-> s.vm, store |-> Define(s.store, s.heap[1]), heap |-> s.heap,
          trace |-> s.trace \o <<"define", "define backup">>,
          out |-> Outcome("LibvirtXMLError", {"define"})]
    ELSE [vm |-> s.vm, store |-> s.store, heap |-> s.heap,
          trace |-> s.trace \o <<"define", "define backup">>,
          out |-> Outcome("CmdError", {"restore"})]

\* except error.CmdError around vmxml.define(): backup.define(), whose own
\* CmdError is allowed to propagate, then raise LibvirtXMLError
rename_define_failed(s, backup, restoreOk) ==
    IF restoreOk
    THEN [vm |-> s.vm, store |-> Define(s.store, s.heap[backup]), heap |-> s.heap,
          trace |-> s.trace \o <<"define", "define backup">>,
          out |-> Outcome("LibvirtXMLError", {"define"})]
    ELSE [vm |-> s.vm, store |-> s.store, heap |-> s.heap,
          trace |-> s.trace \o <<"define", "define backup">>,
          out |-> Outcome("CmdError", {"restore"})]

\* vmxml.define() succeeded: vm.name = new_name; return vm
rename_defined(s, new_name) ==
    [vm |-> [s.vm EXCEPT !.name = new_name], store |-> Define(s.store, s.heap[1]),
     heap |-> s.heap, trace |-> Append(s.trace, "define"), out |-> Returned]

\* VMXML.vm_rename(vm, new_name, uuid); undefOk, defOk, restoreOk are the
\* answers of the external tool.
vm_rename(v, st, new_name, uuid, undefOk, defOk, restoreOk) ==
    LET q == rename_quiesce(v, <<>>)
    IN  IF ~Defined(st, v.name)
        THEN \* virsh.dumpxml fails: its CmdError propagates
             [vm |-> q.vm, store |-> st, heap |-> <<>>,
              trace |-> Append(q.trace, "dumpxml"),
              out |-> Outcome("CmdError", {"dumpxml"})]
        ELSE
        LET h0 == <<Dumpxml(st, v.name)>>
            c  == copy(h0, 1)
            s0 == [vm |-> q.vm, store |-> st, heap |-> c.heap,
                   trace |-> q.trace \o <<"dumpxml", "undefine">>]
        IN  IF ~undefOk THEN rename_undefine_failed(s0)
            ELSE
            LET a  == rename_alter(s0, new_name, uuid)
                s1 == [vm |-> a.vm, store |-> Undefine(st, v.name), heap |-> a.heap,
                       trace |-> Append(s0.trace, "alter")]
            IN  IF defOk THEN rename_defined(s1, new_name)
                ELSE rename_define_failed(s1, c.ref, restoreOk)

\* --------------------------------------------------- convenience setters
\* The result of a static setter: the store, the working document at exit,
\* the calls made, the outcome.
Exit(st, doc, trace, out) == [store |-> st, heap |-> <<doc>>, trace |-> trace, out |-> out]

\* vmxml.undefine(); vmxml.define() at the end of a setter: a CmdError of
\* either propagates
redefine(st, doc, trace, undefOk, defOk) ==
    IF ~undefOk
    THEN Exit(st, doc, Append(trace, "undefine"), Outcome("CmdError", {"undefine"}))
    ELSE IF ~defOk
    THEN Exit(Undefine(st, doc.name), doc, trace \o <<"undefine", "define">>,
              Outcome("CmdError", {"define"}))
    ELSE Exit(Define(Undefine(st, doc.name), doc), doc,
              trace \o <<"undefine", "define">>, Returned)

\* cpu = xmltreefile.find('/cpu'); cpu.set('mode', mode), or a new <cpu>
\* element with that mode when there is none
cpu_set_mode(doc, mode) == [doc EXCEPT !.hasCpu = TRUE, !.cpuMode = mode]

\* set_cpu_mode with the mode validated only after the document was changed
\* and pushed back
set_cpu_mode_checks_late(st, vm_name, mode, undefOk, defOk) ==
    IF ~Defined(st, vm_name)
    THEN Exit(st, NoDoc, <<"dumpxml">>, Outcome("CmdError", {"dumpxml"}))
    ELSE LET r == redefine(st, cpu_set_mode(Dumpxml(st, vm_name), mode),
                           <<"dumpxml">>, undefOk, defOk)
         IN  IF ~check_cpu_mode(mode)
             THEN [r EXCEPT !.out = Outcome("LibvirtXMLError", {"mode"})]
             ELSE r

\* VMXML.set_cpu_mode(vm_name, mode)
set_cpu_mode(st, vm_name, mode, undefOk, defOk) ==
    IF ~Defined(st, vm_name)
    THEN Exit(st, NoDoc, <<"dumpxml">>, Outcome("CmdError", {"dumpxml"}))
    ELSE LET doc == Dumpxml(st, vm_name)
         IN  IF ~check_cpu_mode(mode)
             THEN Exit(st, doc, <<"dumpxml">>, Outcome("LibvirtXMLError", {"mode"}))
             ELSE redefine(st, cpu_set_mode(doc, mode), <<"dumpxml">>, undefOk, defOk)

\* vmxml.get_primary_serial() returns: <devices> exists and has a <serial>
\* (otherwise a lookup on None raises AttributeError)
has_primary_serial(doc) == doc.hasDevices /\ doc.serials # <<>>

\* except AttributeError: SubElement(devices, 'serial', {'type': 'pty'}) with
\* a <target port='0'/> child and no <source>
create_serial(doc) == [doc EXCEPT !.serials = Append(@, Serial("pty", "0", NoPath))]

\* serial.set('type', type); serial.find('target').set('port', port)
serial_set(doc, type, port) ==
    [doc EXCEPT !.serials[1].type = type, !.serials[1].port = port]

\* serial.find('source') is an element
has_source(doc) == doc.serials[1].source # NoPath

\* serial.find('source').set('path', path)
source_set_path(doc, path) == [doc EXCEPT !.serials[1].source = path]

\* serial.remove(serial.find('source')); removing None trips the assertion
\* that the except clause swallows
source_remove(doc) == [doc EXCEPT !.serials[1].source = NoPath]

\* VMXML.set_primary_serial(vm_name, type, port, path)
set_primary_serial(st, vm_name, type, port, path, undefOk, defOk) ==
    IF ~Defined(st, vm_name)
    THEN Exit(st, NoDoc, <<"dumpxml">>, Outcome("CmdError", {"dumpxml"}))
    ELSE
    LET doc == Dumpxml(st, vm_name)
    IN  IF ~has_primary_serial(doc) /\ ~doc.hasDevices
        THEN \* SubElement(None, ...) inside the except clause
             Exit(st, doc, <<"dumpxml">>, Outcome("AttributeError", {"devices"}))
        ELSE
        LET d1 == IF has_primary_serial(doc) THEN doc ELSE create_serial(doc)
            d2 == serial_set(d1, type, port)
        IN  IF path # NoPath
            THEN IF has_source(d2)
                 THEN redefine(st, source_set_path(d2, path), <<"dumpxml">>,
                               undefOk, defOk)
                 ELSE \* None.set('path', path)
                      Exit(st, d2, <<"dumpxml">>, Outcome("AttributeError", {"source"}))
            ELSE redefine(st, source_remove(d2), <<"dumpxml">>, undefOk, defOk)

\* --------------------------------------------------------------- VMCPUXML
FeatureNames == {"vmx", "svm"}
NoName == ""

\* the sequence without its element at position p (1-based)
RemoveAt(s, p) == SubSeq(s, 1, p - 1) \o SubSeq(s, p + 1, Len(s))

\* the guard off by one: num == count passes
index_error_off_by_one(num, count) == num > count

\* if num >= count: raise LibvirtXMLError("... %d from %d features")
index_error(num, count) == num >= count

\* self.feature_list[num] raises IndexError: a Python list takes
\* -count .. count-1
list_index_error(num, count) == num >= count \/ num < -count

\* the position (1-based) self.feature_list[num] designates
list_position(num, count) == IF num >= 0 THEN num + 1 ELSE count + num + 1

FeatureResult(fs, result, read, num) ==
    [features |-> fs, result |-> result, read |-> read,
     errIndex |-> IF result = "LibvirtXMLError" THEN num ELSE 0,
     errCount |-> IF result = "LibvirtXMLError" THEN Len(fs) ELSE 0]

\* VMCPUXML.get_feature_name(num)
get_feature_name(fs, num) ==
    IF index_error(num, Len(fs)) THEN FeatureResult(fs, "LibvirtXMLError", NoName, num)
    ELSE IF list_index_error(num, Len(fs)) THEN FeatureResult(fs, "IndexError", NoName, num)
    ELSE FeatureResult(fs, "ok", fs[list_position(num, Len(fs))], num)

\* VMCPUXML.remove_feature(num)
remove_feature(fs, num) ==
    IF index_error(num, Len(fs)) THEN FeatureResult(fs, "LibvirtXMLError", NoName, num)
    ELSE IF list_index_error(num, Len(fs)) THEN FeatureResult(fs, "IndexError", NoName, num)
    ELSE FeatureResult(RemoveAt(fs, list_position(num, Len(fs))), "ok", NoName, num)

\* VMCPUXML.set_feature(num, value)
set_feature(fs, num, value) ==
    IF index_error(num, Len(fs)) THEN FeatureResult(fs, "LibvirtXMLError", NoName, num)
    ELSE IF list_index_error(num, Len(fs)) THEN FeatureResult(fs, "IndexError", NoName, num)
    ELSE FeatureResult([fs EXCEPT ![list_position(num, Len(fs))] = value], "ok", NoName, num)

\* VMCPUXML.add_feature(value)
add_feature(fs, value) == FeatureResult(Append(fs, value), "ok", NoName, 0)

\* -------------------------------------------------------------- VMXMLBase
Properties == {"hypervisor_type", "vm_name", "uuid", "vcpu"}

\* the values a property takes (hypervisor types and names by number)
Values(property_name) ==
    CASE property_name = "hypervisor_type" -> 1..NumTypes
      [] property_name = "vm_name" -> Names
      [] property_name = "uuid" -> UUIDs
      [] property_name = "vcpu" -> 1..MaxVcpu

\* the forbidden= argument each accessor is constructed with (None: nothing
\* is forbidden)
forbidden(property_name) == {}

\* the accessor's deleter: refused when "del" is forbidden, otherwise the
\* attribute or element is removed (nothing happens when it is already gone)
accessor_del(doc, property_name) ==
    IF "del" \in forbidden(property_name)
    THEN [doc |-> doc, result |-> "LibvirtXMLError"]
    ELSE [doc |-> [doc EXCEPT ![property_name] = None], result |-> "ok"]

\* the accessor's setter: the attribute or element is set, created if absent
accessor_set(doc, property_name, value) ==
    IF "set" \in forbidden(property_name)
    THEN [doc |-> doc, result |-> "LibvirtXMLError"]
    ELSE [doc |-> [doc EXCEPT ![property_name] = value], result |-> "ok"]

\* --------------------------------------------------------- run_mac_change
\* tests/mac_change.py.  mac holds the locals of the test (os_type,
\* os_variant, old_mac, new_mac, mode and whether it is bound yet, the pending
\* exception exc), the NIC's recorded MAC and the address database, the login
\* session, and what the finally clause has done.
MacAddrs == 1..NumMacs
NoExc == ""
Unbound == ""

\* an exception leaves the try block: control goes to the finally clause
mac_raise(m, e) == [m EXCEPT !.exc = e, !.pc = "finally"]

\* session_serial.cmd(change_cmd)
mac_change_cmd(m, ok) ==
    IF ~ok THEN mac_raise(m, "ShellError")
    ELSE [m EXCEPT !.pc = IF m.os_type = "linux" THEN "verify_linux"
                           ELSE "restart_windows"]

\* linux: session_serial.cmd("ifconfig | grep -i new_mac"), then the dhclient
\* line is sent
mac_verify_linux(m, ok) ==
    IF ~ok THEN mac_raise(m, "ShellError") ELSE [m EXCEPT !.pc = "relog"]

\* not linux: mode = "netsh", or "devcon" for winxp, then
\* utils_net.restart_windows_guest_network(..., mode=mode)
mac_restart_windows(m, ok) ==
    LET b == [m EXCEPT !.mode = IF m.os_variant = "winxp" THEN "devcon" ELSE "netsh"]
    IN  IF ~ok THEN mac_raise(b, "ShellError") ELSE [b EXCEPT !.pc = "verify_windows"]

\* o = session_serial.cmd("ipconfig /all"); TestFail unless o shows new_mac
mac_verify_windows(m, ok, shown) ==
    IF ~ok THEN mac_raise(m, "ShellError")
    ELSE IF ~shown THEN mac_raise(m, "TestFail")
    ELSE [m EXCEPT !.pc = "relog"]

\* session.close(); session = vm.wait_for_login(); TestFail unless the new
\* session is responsive
mac_relog(m, loginOk, responsive) ==
    LET c == [m EXCEPT !.session_open = FALSE]
    IN  IF ~loginOk THEN mac_raise(c, "LoginError")
        ELSE IF ~responsive THEN mac_raise([c EXCEPT !.session_open = TRUE], "TestFail")
        ELSE [c EXCEPT !.session_open = TRUE, !.pc = "finally"]

\* finally: for windows the clean command, the network restart with
\* mode=mode, nic.mac = old_mac and update_db(); then session.close().  An
\* exception raised here replaces the pending one and skips the rest.
mac_finally(m, cleanOk, restartOk) ==
    IF m.os_type # "windows"
    THEN [m EXCEPT !.session_open = FALSE, !.pc = "done"]
    ELSE IF ~cleanOk
    THEN [m EXCEPT !.exc = "ShellError", !.cleanup_cmd_failed = TRUE, !.pc = "done"]
    ELSE IF m.mode = Unbound
    THEN \* mode was never assigned: UnboundLocalError
         [m EXCEPT !.cleaned = TRUE, !.exc = "UnboundLocalError", !.pc = "done"]
    ELSE IF ~restartOk
    THEN [m EXCEPT !.cleaned = TRUE, !.exc = "ShellError",
                   !.cleanup_cmd_failed = TRUE, !.pc = "done"]
    ELSE [m EXCEPT !.cleaned = TRUE, !.restarted = TRUE, !.nic_mac = m.old_mac,
                   !.db_mac = m.old_mac, !.session_open = FALSE, !.pc = "done"]

\* ------------------------------------------------------------ the machine
Args(name, uuid, mode, type, port, path, undefOk, defOk, restoreOk) ==
    [name |-> name, uuid |-> uuid, mode |-> mode, type |-> type, port |-> port,
     path |-> path, undefOk |-> undefOk, defOk |-> defOk, restoreOk |-> restoreOk]

NoArgs == Args(None, None, <<>>, "", "", NoPath, TRUE, TRUE, TRUE)

Record(op, r, v, st, args) ==
    [op |-> op, out |-> r.out, trace |-> r.trace,
     vmxml  |-> IF Len(r.heap) >= 1 THEN r.heap[1] ELSE NoDoc,
     backup |-> IF Len(r.heap) >= 2 THEN r.heap[2] ELSE NoDoc,
     preVm |-> v, preStore |-> st, args |-> args]

\* the inputs the operations are called with
SerialTypes == {"pty", "file"}
SerialPorts == {"0", "1"}
SerialPaths == {"/tmp/serial.log"}
Modes == {Str_custom, <<" ">> \o Str_host_model, <<"C","u","s","t","o","m">>, <<>>}

\* the <serial> devices a definition may start with
InitSerial == {Serial("pty", "0", NoPath), Serial("file", "1", "/tmp/serial.log")}

RECURSIVE SeqsUpTo(_, _)
SeqsUpTo(S, n) ==
    IF n = 0 THEN {<<>>}
    ELSE LET shorter == SeqsUpTo(S, n - 1)
         IN  shorter \cup {Append(q, x) : q \in shorter, x \in S}

\* the VM object and its one definition, the definition starting with or
\* without a <cpu> element (cs), a <devices> element (ds) and the serials ss
VMInit(cs, ds, ss) ==
    /\ \E u \in UUIDs, a \in BOOLEAN, c \in cs, dv \in ds, s \in ss :
          /\ dv \/ s = <<>>
          /\ vm = [name |-> 1, uuid |-> u, alive |-> a]
          /\ store = {[name |-> 1, uuid |-> u, hasCpu |-> c,
                       cpuMode |-> IF c THEN Str_host_model ELSE <<>>,
                       hasDevices |-> dv, serials |-> s]}
    /\ last = [op |-> "init", out |-> Returned, trace |-> <<>>,
               vmxml |-> NoDoc, backup |-> NoDoc,
               preVm |-> vm, preStore |-> store, args |-> NoArgs]

VmRename ==
    \E new_name \in Names, uuid \in UUIDs \cup {None},
       undefOk \in BOOLEAN, defOk \in BOOLEAN, restoreOk \in BOOLEAN :
        LET r == vm_rename(vm, store, new_name, uuid, undefOk, defOk, restoreOk)
        IN  /\ vm' = r.vm
            /\ store' = r.store
            /\ last' = Record("vm_rename", r, vm, store,
                              Args(new_name, uuid, <<>>, "", "", NoPath,
                                   undefOk, defOk, restoreOk))

SetCpuMode ==
    \E vm_name \in Names, mode \in Modes, undefOk \in BOOLEAN, defOk \in BOOLEAN :
        LET r == set_cpu_mode(store, vm_name, mode, undefOk, defOk)
        IN  /\ store' = r.store
            /\ last' = Record("set_cpu_mode", r, vm, store,
                              Args(vm_name, None, mode, "", "", NoPath,
                                   undefOk, defOk, TRUE))
            /\ UNCHANGED vm

SetPrimarySerial ==
    \E vm_name \in Names, type \in SerialTypes, port \in SerialPorts,
       path \in SerialPaths \cup {NoPath}, undefOk \in BOOLEAN, defOk \in BOOLEAN :
        LET r == set_primary_serial(store, vm_name, type, port, path, undefOk, defOk)
        IN  /\ store' = r.store
            /\ last' = Record("set_primary_serial", r, vm, store,
                              Args(vm_name, None, <<>>, type, port, path,
                                   undefOk, defOk, TRUE))
            /\ UNCHANGED vm

\* the test harness starts the (defined) VM
VmStart ==
    /\ ~vm.alive
    /\ Defined(store, vm.name)
    /\ vm' = [vm EXCEPT !.alive = TRUE]
    /\ UNCHANGED <<store, last>>

ModeIdle == modeIn = [lpad |-> <<>>, core |-> <<>>, rpad |-> <<>>] /\ modeOut = "none"
CPUIdle  == features = <<>> /\ lastF = [op |-> "init"]
BaseIdle == basexml = [hypervisor_type |-> None] /\ lastB = [op |-> "init"]

MacIdle  == mac = [pc |-> "idle"]

VMIdle ==
    /\ vm = [name |-> 1, uuid |-> 1, alive |-> FALSE]
    /\ store = {}
    /\ last = [op |-> "init"]

Init ==
    /\ VMInit(BOOLEAN, {TRUE}, {<<Serial("pty", "0", NoPath)>>})
    /\ ModeIdle /\ CPUIdle /\ BaseIdle /\ MacIdle

Next ==
    \/ VmRename /\ UNCHANGED <<modeVars, cpuVars, baseVars, macVars>>
    \/ VmStart /\ UNCHANGED <<modeVars, cpuVars, baseVars, macVars>>

\* vm_rename on a VM the harness may start
Spec == Init /\ [][Next]_vars

InitSet ==
    /\ VMInit(BOOLEAN, BOOLEAN, SeqsUpTo(InitSerial, MaxSerials))
    /\ ModeIdle /\ CPUIdle /\ BaseIdle /\ MacIdle

NextSet ==
    \/ SetCpuMode /\ UNCHANGED <<modeVars, cpuVars, baseVars, macVars>>
    \/ SetPrimarySerial /\ UNCHANGED <<modeVars, cpuVars, baseVars, macVars>>

\* the static setters on the definitions of the store
SpecSet == InitSet /\ [][NextSet]_vars

\* check_cpu_mode on padded and unpadded arguments.  A core neither starts nor
\* ends with whitespace, so it is what trimming the argument must leave.
PadChars == {" ", "\t", "\n"}
Pads == SeqsUpTo(PadChars, MaxPad)
Cores == {Str_custom, Str_host_model, Str_host_passthrough,
          <<"C","u","s","t","o","m">>,
          <<"H","O","S","T","-","M","O","D","E","L">>,
          <<>>,
          <<"h","o","s","t"," ","m","o","d","e","l">>,
          <<"c","u","s"," ","t","o","m">>,
          <<"h","o","s","t","-","p","a","s","s"," ","t","h","r","o","u","g","h">>,
          <<"h","o","s","t">>}

InitMode ==
    /\ modeIn \in [lpad : Pads, core : Cores, rpad : Pads]
    /\ modeOut = "none"
    /\ VMIdle /\ CPUIdle /\ BaseIdle /\ MacIdle

CheckCpuMode ==
    /\ modeOut = "none"
    /\ modeOut' = IF check_cpu_mode(modeIn.lpad \o modeIn.core \o modeIn.rpad)
                  THEN "ok" ELSE "LibvirtXMLError"
    /\ UNCHANGED modeIn

NextMode == CheckCpuMode /\ UNCHANGED <<vmVars, cpuVars, baseVars, macVars>>

SpecMode == InitMode /\ [][NextMode]_vars

\* the feature operations of a VMCPUXML instance
Indexes == -(MaxFeatures + 1) .. (MaxFeatures + 1)

FeatureRecord(op, r, num, value) ==
    [op |-> op, num |-> num, value |-> value, result |-> r.result,
     read |-> r.read, errIndex |-> r.errIndex, errCount |-> r.errCount,
     pre |-> features]

InitCPU ==
    /\ features \in SeqsUpTo(FeatureNames, MaxFeatures)
    /\ lastF = [op |-> "init", num |-> 0, value |-> NoName, result |-> "ok",
                read |-> NoName, errIndex |-> 0, errCount |-> 0, pre |-> features]
    /\ VMIdle /\ ModeIdle /\ BaseIdle /\ MacIdle

GetFeatureName ==
    \E num \in Indexes :
        LET r == get_feature_name(features, num)
        IN  /\ features' = r.features
            /\ lastF' = FeatureRecord("get_feature_name", r, num, NoName)

RemoveFeature ==
    \E num \in Indexes :
        LET r == remove_feature(features, num)
        IN  /\ features' = r.features
            /\ lastF' = FeatureRecord("remove_feature", r, num, NoName)

SetFeature ==
    \E num \in Indexes, value \in FeatureNames :
        LET r == set_feature(features, num, value)
        IN  /\ features' = r.features
            /\ lastF' = FeatureRecord("set_feature", r, num, value)

AddFeature ==
    \E value \in FeatureNames :
        /\ Len(features) < MaxFeatures
        /\ LET r == add_feature(features, value)
           IN  /\ features' = r.features
               /\ lastF' = FeatureRecord("add_feature", r, 0, value)

NextCPU ==
    \/ GetFeatureName /\ UNCHANGED <<vmVars, modeVars, baseVars, macVars>>
    \/ RemoveFeature /\ UNCHANGED <<vmVars, modeVars, baseVars, macVars>>
    \/ SetFeature /\ UNCHANGED <<vmVars, modeVars, baseVars, macVars>>
    \/ AddFeature /\ UNCHANGED <<vmVars, modeVars, baseVars, macVars>>

SpecCPU == InitCPU /\ [][NextCPU]_vars

\* the accessor properties of a VMXMLBase instance; None: attribute or
\* element absent
InitBase ==
    /\ basexml \in [hypervisor_type : Values("hypervisor_type") \cup {None},
                    vm_name : Values("vm_name") \cup {None},
                    uuid : Values("uuid") \cup {None},
                    vcpu : Values("vcpu") \cup {None}]
    /\ lastB = [op |-> "init", property |-> "", result |-> "ok", pre |-> basexml]
    /\ VMIdle /\ ModeIdle /\ CPUIdle /\ MacIdle

DelProperty ==
    \E property_name \in Properties :
        LET r == accessor_del(basexml, property_name)
        IN  /\ basexml' = r.doc
            /\ lastB' = [op |-> "del", property |-> property_name,
                         result |-> r.result, pre |-> basexml]

SetProperty ==
    \E property_name \in Properties :
      \E value \in Values(property_name) :
        LET r == accessor_set(basexml, property_name, value)
        IN  /\ basexml' = r.doc
            /\ lastB' = [op |-> "set", property |-> property_name,
                         result |-> r.result, pre |-> basexml]

NextBase ==
    \/ DelProperty /\ UNCHANGED <<vmVars, modeVars, cpuVars, macVars>>
    \/ SetProperty /\ UNCHANGED <<vmVars, modeVars, cpuVars, macVars>>

SpecBase == InitBase /\ [][NextBase]_vars

\* run_mac_change from the entry of its try block: both sessions are logged
\* in, a new MAC differing from the old one is generated and recorded for the
\* NIC, mode is not yet bound
InitMac ==
    /\ \E t \in {"linux", "windows"}, v \in {"winxp", "win7"},
          o \in MacAddrs, n \in MacAddrs :
          /\ o # n
          /\ mac = [pc |-> "change", os_type |-> t, os_variant |-> v,
                    old_mac |-> o, new_mac |-> n, nic_mac |-> n, db_mac |-> n,
                    mode |-> Unbound, exc |-> NoExc, session_open |-> TRUE,
                    cleaned |-> FALSE, restarted |-> FALSE,
                    cleanup_cmd_failed |-> FALSE]
    /\ VMIdle /\ ModeIdle /\ CPUIdle /\ BaseIdle

MacChangeCmd ==
    /\ mac.pc = "change"
    /\ \E ok \in BOOLEAN : mac' = mac_change_cmd(mac, ok)

MacVerifyLinux ==
    /\ mac.pc = "verify_linux"
    /\ \E ok \in BOOLEAN : mac' = mac_verify_linux(mac, ok)

MacRestartWindows ==
    /\ mac.pc = "restart_windows"
    /\ \E ok \in BOOLEAN : mac' = mac_restart_windows(mac, ok)

MacVerifyWindows ==
    /\ mac.pc = "verify_windows"
    /\ \E ok \in BOOLEAN, shown \in BOOLEAN : mac' = mac_verify_windows(mac, ok, shown)

MacRelog ==
    /\ mac.pc = "relog"
    /\ \E loginOk \in BOOLEAN, responsive \in BOOLEAN :
          mac' = mac_relog(mac, loginOk, responsive)

MacFinally ==
    /\ mac.pc = "finally"
    /\ \E cleanOk \in BOOLEAN, restartOk \in BOOLEAN :
          mac' = mac_finally(mac, cleanOk, restartOk)

NextMac ==
    \/ MacChangeCmd /\ UNCHANGED <<vmVars, modeVars, cpuVars, baseVars>>
    \/ MacVerifyLinux /\ UNCHANGED <<vmVars, modeVars, cpuVars, baseVars>>
    \/ MacRestartWindows /\ UNCHANGED <<vmVars, modeVars, cpuVars, baseVars>>
    \/ MacVerifyWindows /\ UNCHANGED <<vmVars, modeVars, cpuVars, baseVars>>
    \/ MacRelog /\ UNCHANGED <<vmVars, modeVars, cpuVars, baseVars>>
    \/ MacFinally /\ UNCHANGED <<vmVars, modeVars, cpuVars, baseVars>>

SpecMac == InitMac /\ [][NextMac]_vars

\* ================================================================ claims
\* The last operation was a vm_rename that got its document (dumpxml
\* succeeded) and met the tool answers u (undefine), d (define), r (define of
\* the backup).
RenameCase(u, d, r) ==
    /\ last.op = "vm_rename"
    /\ Defined(last.preStore, last.preVm.name)
    /\ last.args.undefOk = u
    /\ u => last.args.defOk = d
    /\ (u /\ ~d) => last.args.restoreOk = r

OldName == last.preVm.name
OldDoc  == Dumpxml(last.preStore, OldName)

\* C1 as stated: when undefine succeeds and both the define of the renamed
\* document and the define of the backup fail, the error reaching the caller
\* reports both failures.
C1_BothFailuresReported ==
    RenameCase(TRUE, FALSE, FALSE) =>
        {"define", "restore"} \subseteq last.out.reports

\* C1 amended: in that case the error reaching the caller is the CmdError of
\* the failed restoration alone; the LibvirtXMLError for the failed define of
\* the renamed document is never raised and that failure is not reported.
C1_OnlyRestoreFailureReported ==
    RenameCase(TRUE, FALSE, FALSE) =>
        /\ last.out.result = "CmdError"
        /\ last.out.reports = {"restore"}
        /\ last.trace[Len(last.trace)] = "define backup"

C1_Witness ==
    /\ RenameCase(TRUE, FALSE, FALSE)
    /\ last.out.result = "CmdError"
    /\ ~Defined(store, OldName)

\* C2: when undefine succeeds, the define of the renamed document fails and
\* the define of the backup succeeds, the store holds under the old name the
\* pre-rename document (original name, original uuid), holds nothing under
\* the new name (when it differs from the old one), and vm_rename raises
\* LibvirtXMLError.
C2_RollbackRestoresOriginal ==
    RenameCase(TRUE, FALSE, TRUE) =>
        /\ Cardinality({d \in store : d.name = OldName}) = 1
        /\ Dumpxml(store, OldName) = OldDoc
        /\ Dumpxml(store, OldName).uuid = OldDoc.uuid
        /\ last.backup = OldDoc
        /\ last.vmxml.name = last.args.name
        /\ last.args.name # OldName => ~Defined(store, last.args.name)
        /\ last.out.result = "LibvirtXMLError"

C2_Witness ==
    /\ RenameCase(TRUE, FALSE, TRUE)
    /\ last.args.name # OldName
    /\ last.args.uuid # OldDoc.uuid
    /\ last.vmxml # last.backup
    /\ Defined(store, OldName)

\* C3: when undefine fails, vm_rename raises LibvirtXMLError and changes
\* nothing further: no define is issued, the working document keeps its name
\* and uuid, vm.name and vm.uuid keep their values, the store is untouched.
C3_UndefineFailureAborts ==
    RenameCase(FALSE, FALSE, FALSE) =>
        /\ last.out = Outcome("LibvirtXMLError", {"undefine"})
        /\ \A i \in 1..Len(last.trace) :
               last.trace[i] \notin {"alter", "define", "define backup"}
        /\ last.vmxml.name = OldDoc.name
        /\ last.vmxml.uuid = OldDoc.uuid
        /\ vm.name = last.preVm.name
        /\ vm.uuid = last.preVm.uuid
        /\ store = last.preStore

C3_Witness ==
    /\ RenameCase(FALSE, FALSE, FALSE)
    /\ last.args.name # OldName
    /\ last.args.uuid # last.preVm.uuid
    /\ last.out.result = "LibvirtXMLError"

BadModeCase == last.op = "set_cpu_mode" /\ ~check_cpu_mode(last.args.mode)

\* C5 as stated: set_cpu_mode with a rejected mode raises the validation
\* error before any external call: no dumpxml, undefine or define has been
\* issued and the external definition is unchanged.
C5_NoExternalCallBeforeValidation ==
    BadModeCase =>
        /\ last.out.result = "LibvirtXMLError"
        /\ last.trace = <<>>
        /\ store = last.preStore

\* C5 amended: set_cpu_mode on a defined vm_name with a rejected mode raises
\* the validation error after the one dumpxml that loads the document and
\* before any document mutation, undefine or define; the external definition
\* is unchanged.
C5_ValidationAfterDumpxmlOnly ==
    (BadModeCase /\ Defined(last.preStore, last.args.name)) =>
        /\ last.out = Outcome("LibvirtXMLError", {"mode"})
        /\ last.trace = <<"dumpxml">>
        /\ last.vmxml = Dumpxml(last.preStore, last.args.name)
        /\ store = last.preStore

C5_Witness ==
    /\ BadModeCase
    /\ Defined(last.preStore, last.args.name)
    /\ last.out.result = "LibvirtXMLError"
    /\ last.trace = <<"dumpxml">>

\* The last operation was a set_primary_serial on a defined VM that the
\* external tool served without error.
SerialCase ==
    /\ last.op = "set_primary_serial"
    /\ Defined(last.preStore, last.args.name)
    /\ last.args.undefOk /\ last.args.defOk

SerialPre == Dumpxml(last.preStore, last.args.name)
SerialNow == Dumpxml(store, last.args.name)

\* C6: from a definition with <devices> and no serial,
\* set_primary_serial(name, "pty", "0") returns and leaves exactly one serial,
\* pty, port 0, no source path; on that definition a call with a path returns
\* and sets the source path; a later call with path=None removes the source
\* path and keeps type and port.
C6_FirstCall ==
    (/\ SerialCase
     /\ SerialPre.hasDevices /\ SerialPre.serials = <<>>
     /\ last.args.type = "pty" /\ last.args.port = "0"
     /\ last.args.path = NoPath)
    => /\ last.out = Returned
       /\ Defined(store, last.args.name)
       /\ SerialNow.serials = <<Serial("pty", "0", NoPath)>>

C6_CallWithPath ==
    (/\ SerialCase
     /\ SerialPre.hasDevices
     /\ SerialPre.serials = <<Serial("pty", "0", NoPath)>>
     /\ last.args.path # NoPath)
    => /\ last.out = Returned
       /\ Defined(store, last.args.name)
       /\ Len(SerialNow.serials) = 1
       /\ SerialNow.serials[1].source = last.args.path

C6_CallWithoutPath ==
    (/\ SerialCase
     /\ SerialPre.hasDevices /\ Len(SerialPre.serials) = 1
     /\ SerialPre.serials[1].source # NoPath
     /\ last.args.path = NoPath)
    => /\ last.out = Returned
       /\ Defined(store, last.args.name)
       /\ SerialNow.serials =
              <<Serial(last.args.type, last.args.port, NoPath)>>

C6_SerialEndToEnd == C6_FirstCall /\ C6_CallWithPath /\ C6_CallWithoutPath

\* C7: check_cpu_mode returns exactly when the argument, trimmed of the
\* surrounding whitespace, is "custom", "host-model" or "host-passthrough",
\* and raises LibvirtXMLError for every other string.
C7_CheckCpuModeExact ==
    modeOut # "none" =>
        /\ modeOut \in {"ok", "LibvirtXMLError"}
        /\ modeOut = "ok" <=>
               modeIn.core \in {Str_custom, Str_host_model, Str_host_passthrough}

C7_Witness ==
    /\ modeOut = "ok"
    /\ modeIn.lpad # <<>> /\ modeIn.rpad # <<>>
    /\ modeIn.core = Str_host_passthrough

FeatureOps == {"get_feature_name", "set_feature", "remove_feature"}

\* C8: for i >= the number of feature nodes, get_feature_name(i),
\* set_feature(i, v) and remove_feature(i) raise LibvirtXMLError and leave the
\* feature nodes, their order and their names as they were.
C8_IndexAtOrPastCountFails ==
    (lastF.op \in FeatureOps /\ lastF.num >= Len(lastF.pre)) =>
        /\ lastF.result = "LibvirtXMLError"
        /\ features = lastF.pre
        /\ lastF.read = NoName

C8_Witness ==
    /\ lastF.op = "remove_feature"
    /\ lastF.pre # <<>>
    /\ lastF.num = Len(lastF.pre)
    /\ lastF.result = "LibvirtXMLError"

\* C9: for every i outside 0..count-1, negative i included, the three
\* operations fail with the index error carrying i and the count, and no
\* feature node is read, renamed or removed.
C9_OutsideRangeFails ==
    (lastF.op \in FeatureOps /\ (lastF.num < 0 \/ lastF.num >= Len(lastF.pre))) =>
        /\ lastF.result = "LibvirtXMLError"
        /\ lastF.errIndex = lastF.num
        /\ lastF.errCount = Len(lastF.pre)
        /\ features = lastF.pre
        /\ lastF.read = NoName

\* C10: deleting hypervisor_type or vm_name always raises LibvirtXMLError and
\* leaves the document unchanged; deleting uuid or vcpu removes the element.
C10_DeleteForbiddenForTypeAndName ==
    lastB.op = "del" =>
        /\ lastB.property \in {"hypervisor_type", "vm_name"} =>
               /\ lastB.result = "LibvirtXMLError"
               /\ basexml = lastB.pre
        /\ lastB.property \in {"uuid", "vcpu"} =>
               /\ lastB.result = "ok"
               /\ basexml[lastB.property] = None

\* C11: whenever vm_rename raises, vm.name and vm.uuid equal the values they
\* had before the call; they change only in a rename whose define succeeded.
C11_VmUnchangedWhenRenameRaises ==
    (last.op = "vm_rename" /\ last.out.result # "ok") =>
        /\ vm.name = last.preVm.name
        /\ vm.uuid = last.preVm.uuid

\* The test on a windows guest has left its finally clause, and no command of
\* the cleanup itself was refused by the guest.
MacWindowsDone ==
    mac.pc = "done" /\ mac.os_type = "windows" /\ ~mac.cleanup_cmd_failed

\* C12: with a windows guest, on every exit path from the try block (the
\* failure of the MAC-change command before mode is chosen included) the
\* cleanup completes in full: clean command run, guest network restarted,
\* the NIC's MAC reset to old_mac, the address database updated, the login
\* session closed.
C12_WindowsCleanupCompletes ==
    MacWindowsDone =>
        /\ mac.cleaned
        /\ mac.restarted
        /\ mac.nic_mac = mac.old_mac
        /\ mac.db_mac = mac.old_mac
        /\ ~mac.session_open
        /\ mac.exc # "UnboundLocalError"

====
